---- MODULE Spec2Model ----
(***************************************************************************)
(* A model of the generation engines of openllm (_runners.py), of the      *)
(* LLM facade that consumes their streams (_llm.py) and of the backend     *)
(* registry.  Token ids are small integers, texts are sequences of         *)
(* one-character strings, an emission is the record that                   *)
(* GenerationOutput.model_dump_json() carries.                             *)
(***************************************************************************)
EXTENDS Integers, Sequences, FiniteSets, TLC

(* ------------------------------ bounds --------------------------------- *)
\* largest max_new_tokens a request asks for
MaxNewTokens == 2
\* largest number of tokens the external token-streaming runtime yields
MaxExt == 2

(* ------------------------- program constants --------------------------- *)
\* tokenizer.eos_token_id: fixed by the tokenizer the engine was loaded with
VARIABLE eos_token_id
EosTokenId == eos_token_id
\* model.generation_config.decoder_start_token_id
DecoderStartTokenId == 0

\* request ids (at most two requests in flight on one engine instance)
R == {1, 2}
\* the vocabulary
Tokens == 0 .. 2
None == "None"
NoCache == <<-1>>
NoList == <<-1>>
Unbound == <<"<unbound>">>

(* ------------------------------ tokenizer ------------------------------ *)
\* the piece of text a token id stands for; the end-of-sequence token is a
\* special token
TokPiece(t) ==
  CASE t = 1 -> <<"a">>
    [] t = 2 -> <<"b">>
    [] OTHER -> <<"$">>

IsSpecial(t) == t = EosTokenId

\* tokenizer.decode(ids, skip_special_tokens=...): the pieces joined; the
\* alphabet has no blank, so clean_up_tokenization_spaces changes nothing
RECURSIVE decode(_, _)
decode(ids, skip_special_tokens) ==
  IF ids = <<>> THEN <<>>
  ELSE (IF skip_special_tokens /\ IsSpecial(Head(ids)) THEN <<>> ELSE TokPiece(Head(ids)))
         \o decode(Tail(ids), skip_special_tokens)

\* tokenizer.encode(text): one id per character
RECURSIVE encode(_)
encode(s) ==
  IF s = <<>> THEN <<>>
  ELSE <<(CASE Head(s) = "a" -> 1 [] Head(s) = "b" -> 2 [] OTHER -> 0)>> \o encode(Tail(s))

(* --------------------------- python helpers ---------------------------- *)
SetMax(S) == CHOOSE x \in S : \A y \in S : y <= x
SetMin(S) == CHOOSE x \in S : \A y \in S : x <= y

\* the 0-based positions at which `it` occurs in `s`
Occurrences(s, it) ==
  {p \in 0 .. (Len(s) - Len(it)) : SubSeq(s, p + 1, p + Len(it)) = it}

\* str.rfind(it, start): the highest position >= start, -1 when there is none
rfind(s, it, start) ==
  LET c == {p \in Occurrences(s, it) : p >= start}
  IN IF c = {} THEN -1 ELSE SetMax(c)

\* s[:n]
Take(s, n) == SubSeq(s, 1, n)

\* lst[-k:] with python's slice rules: -0 is 0 (the whole list), a negative k
\* (a positive start) drops the first -k elements
SliceLast(lst, k) ==
  IF k = 0 THEN lst
  ELSE IF k > 0 THEN (IF k >= Len(lst) THEN lst ELSE SubSeq(lst, Len(lst) - k + 1, Len(lst)))
  ELSE SubSeq(lst, (0 - k) + 1, Len(lst))

\* an element of a python list that is an int, or a list of ints
IntItem(n) == [list |-> FALSE, ids |-> <<n>>]
ListItem(ids) == [list |-> TRUE, ids |-> ids]
\* `n in lst` for an int n: an int never equals a list
IntIn(n, lst) == \E k \in 1 .. Len(lst) : lst[k] = IntItem(n)

\* all orders in which a set can be iterated
Orders(S) ==
  {s \in [1 .. Cardinality(S) -> S] : \A i, j \in 1 .. Cardinality(S) : s[i] = s[j] => i = j}

(* ------------------------------- state --------------------------------- *)
VARIABLES
  reqs,                 \* the request ids in flight
  api,                  \* per request: the entry point that serves it
  llm_runner,           \* the runner handle of the LLM object: dummy, local
  returned,             \* per request: what LLM.generate returned
  frames,               \* per request: what /v1/generate_stream has written
  spc,                  \* per request: /v1/generate_stream: run, done, error
  warned,               \* the warnings issued so far
  backend,              \* llm.__llm_backend__ of the engine instance
  is_encoder_decoder,   \* model.config.is_encoder_decoder
  active_adapter,       \* the adapter model.set_adapter made active (engine-wide)
  oracle,               \* the model: (adapter, context) -> highest-logit token, fixed once computed
  req,                  \* per request: the caller's arguments
  fpc,                  \* LLM.generate_iterator: new, run, done, error
  ferr,                 \* the error LLM.generate_iterator raised
  stop_token_ids,       \* the stop_token_ids list object of the call
  stop,                 \* the stop set handed to the engine, in iteration order
  previous_texts,
  previous_num_tokens,
  fpos,                 \* emissions of the engine stream the facade has received
  yielded,              \* what LLM.generate_iterator has yielded
  pc,                   \* engine generator: init, yielded, final, done, error
  err,                  \* the error the engine generator raised
  prompt_token_ids,
  i,
  output_token_ids,
  past_key_values,
  token,
  cumulative_logprob,
  stopped,
  text,
  finish_reason,
  ext_is_last,          \* the external runtime's last step result had is_last set
  stream,               \* the emissions of the engine generator, in order
  drawn,                \* history: the tokens the steps of the request chose, in order
  fed,                  \* history: what each forward pass of the request was given
  registry_table,       \* _registry: backend name -> class
  classes,              \* the engine classes created so far
  last_op,              \* the last registry operation and its outcome
  request,              \* OpenAI handler: the request it serves (endpoint, stream, n)
  hpc,                  \* OpenAI handler: idle, await, stream, role, data, finish, last, done, error
  result_generator,     \* what llm.generate_iterator has yielded to the handler, in order
  res,                  \* streaming generator: the result being worked on
  out_pos,              \* streaming generator: position of `output` in res.outputs
  h_i,                  \* streaming generator: the local i
  h_previous_num_tokens, \* streaming generator: the local previous_num_tokens
  sent,                 \* the frames the streaming generator has yielded
  texts,                \* non-streaming handler: the local texts
  token_ids,            \* non-streaming handler: the local token_ids
  final_result,         \* non-streaming handler: the local final_result
  response              \* what the non-streaming handler returned

openai_vars == <<request, hpc, result_generator, res, out_pos, h_i, h_previous_num_tokens, sent,
                 texts, token_ids, final_result, response>>
engine_vars == <<backend, is_encoder_decoder, eos_token_id, active_adapter, oracle>>
facade_vars == <<fpc, ferr, stop_token_ids, stop, previous_texts, previous_num_tokens, fpos, yielded,
                 llm_runner, returned, frames, spc>>
served == <<returned, frames, spc>>
frame_vars == <<prompt_token_ids, i, output_token_ids, past_key_values, token,
                cumulative_logprob, stopped, text, finish_reason>>
gen_vars == <<pc, err, ext_is_last, stream>>
registry_vars == <<registry_table, classes, last_op, warned>>
vars == <<reqs, req, api, openai_vars, engine_vars, facade_vars, frame_vars, gen_vars, drawn, fed, registry_vars>>

(* ------------------------- emissions (_schemas) ------------------------- *)
CompletionChunk(index, txt, ids, clp, reason) ==
  [index |-> index, text |-> txt, token_ids |-> ids, cumulative_logprob |-> clp,
   finish_reason |-> reason]

GenerationOutput(fin, rid, outs, p) ==
  [finished |-> fin, request_id |-> rid, outputs |-> outs, prompt_token_ids |-> p]

(* ----------------------- PyTorchRunnable (engine) ----------------------- *)
\* (mutant) the decode state kept on the engine instance, shared by all calls
SharedFrame(r) == 1

\* the locals of one generate_iterator call live in that call's own frame
Frame(r) == r

\* config['temperature'] < 1e-5 or config['top_p'] < 1e-8, in units of 1e-9
IsGreedy(c) == c.temperature_e9 < 10000 \/ c.top_p_e9 < 10

\* (mutant) the greedy branch draws like the sampling branch
SelectByDraw(c, ctx, tok) == oracle' = oracle

\* the token the step chooses: tokens[0] of topk in greedy mode (the model's
\* highest logit for this context), of a multinomial draw otherwise
SelectToken(c, ctx, tok) ==
  IF IsGreedy(c)
  THEN IF ctx \in DOMAIN oracle
       THEN tok = oracle[ctx] /\ oracle' = oracle
       ELSE oracle' = (oracle @@ (ctx :> tok))
  ELSE oracle' = oracle

\* stop_token_ids of the engine: the encoded stop strings, then eos
EngineStopTokenIds(stp) ==
  LET enc == [k \in 1 .. Len(stp) |-> ListItem(encode(stp[k]))]
  IN IF IntIn(EosTokenId, enc) THEN enc ELSE Append(enc, IntItem(EosTokenId))

\* the string-level stop check of one step
StopScan(txt, stp) ==
  LET hits == {k \in 1 .. Len(stp) : rfind(txt, stp[k], 0) # -1}
  IN IF hits = {} THEN [text |-> txt, stopped |-> FALSE]
     ELSE [text |-> Take(txt, rfind(txt, stp[SetMin(hits)], 0)), stopped |-> TRUE]

\* log_softmax(logits)[token].item(), in whole units
TokenLogprob(tok) == 0 - (tok + 1)

\* (mutant) one pass too many
LoopRangeInclusive(n) == 0 .. n

\* range(config['max_new_tokens'])
LoopRange(n) == 0 .. (n - 1)

\* (mutant) the loop without its break
NeverBreaks(st) == FALSE

\* `if stopped: break`
LoopBreaks(st) == st

\* (mutant) the emission after the loop not flagged
FinalUnflagged == FALSE

\* finished flag of the emission yielded after the loop
FinalFinished == TRUE

MaxSrcLen(c) ==
  IF is_encoder_decoder THEN c.context_length
  ELSE c.context_length - c.max_new_tokens - 1

\* (mutant) the engine runs on whether or not its stream is read
EngineFreeRunning(r) == fpc[r] = "run"

\* the consumer of the stream has asked for the next emission
EnginePulled(r) == fpc[r] = "run" /\ fpos[r] = Len(stream[r])

Raise(r, e) ==
  /\ pc' = [pc EXCEPT ![r] = "error"]
  /\ err' = [err EXCEPT ![r] = e]
  /\ stream' = stream

\* a call of the model: the input ids, the past_key_values passed (NoCache
\* when the argument is left out) and the adapter active during the call
ForwardPass(input_ids, cache, adapter) ==
  [input_ids |-> input_ids, past_key_values |-> cache, adapter |-> adapter]

\* (mutant) the ids with the prompt in front
AllIds(outs, p) == outs

\* tmp_output_ids = output_token_ids[input_len:]
GeneratedIds(outs, p) == SubSeq(outs, Len(p) + 1, Len(outs))

\* (mutant) every pass fed with all ids so far
DecodeInputAll(f) == output_token_ids[f]

\* input_ids of a decoding pass: torch.as_tensor([[token]])
DecodeInput(f) == <<token[f]>>

\* one pass of the loop body, with i = k, up to and including its yield:
\* p the truncated prompt, outs output_token_ids before the pass, inp the
\* input ids fed to the model, cache the past_key_values fed, clp the
\* cumulative_logprob before the pass
LoopBody(r, k, p, outs, inp, cache, clp) ==
  LET f == Frame(r)
      c == req[r]
      seen == (IF cache = NoCache THEN <<>> ELSE cache) \o inp
      ctx == [adapter |-> active_adapter', enc |-> IF is_encoder_decoder THEN p ELSE <<>>,
              dec |-> seen]
  IN \E tok \in Tokens :
       /\ SelectToken(c, ctx, tok)
       /\ LET outs2 == Append(outs, tok)
              clp2 == IF c.logprobs THEN clp + TokenLogprob(tok) ELSE clp
              tmp_output_ids == GeneratedIds(outs2, p)
              scan == StopScan(decode(tmp_output_ids, TRUE), stop[r])
              st == IntIn(tok, EngineStopTokenIds(stop[r])) \/ scan.stopped
          IN /\ i' = [i EXCEPT ![f] = k]
             /\ prompt_token_ids' = [prompt_token_ids EXCEPT ![f] = p]
             /\ past_key_values' = [past_key_values EXCEPT ![f] = seen]
             /\ token' = [token EXCEPT ![f] = tok]
             /\ drawn' = [drawn EXCEPT ![r] = Append(@, tok)]
             /\ fed' = [fed EXCEPT ![r] = Append(@, ForwardPass(inp, cache, active_adapter'))]
             /\ output_token_ids' = [output_token_ids EXCEPT ![f] = outs2]
             /\ cumulative_logprob' = [cumulative_logprob EXCEPT ![f] = clp2]
             /\ IF c.prompt_logprobs /\ ~c.logprobs /\ k = 0 /\ p # <<>>
                THEN \* logprobs[token_id]: the name logprobs was never assigned
                     /\ Raise(r, "UnboundLocalError")
                     /\ UNCHANGED <<stopped, text, finish_reason>>
                ELSE /\ stopped' = [stopped EXCEPT ![f] = st]
                     /\ text' = [text EXCEPT ![f] = scan.text]
                     /\ finish_reason' = finish_reason
                     /\ stream' = [stream EXCEPT ![r] = Append(@,
                          GenerationOutput(FALSE, r,
                            <<CompletionChunk(0, scan.text, tmp_output_ids, clp2, None)>>, p))]
                     /\ pc' = [pc EXCEPT ![r] = "yielded"]
                     /\ err' = err

\* (mutant) without `if stopped: finish_reason = 'stop'`
FinishReasonOfLoop(st, completed, prev) == IF completed THEN "length" ELSE prev

\* finish_reason after the loop: the for/else sets 'length' when the loop was
\* not left by break, then `if stopped` overrides it with 'stop'
FinishReason(st, completed, prev) ==
  IF st THEN "stop" ELSE IF completed THEN "length" ELSE prev

\* the statements after the loop, up to and including the final yield
AfterLoop(r, p, outs, txt, st, completed) ==
  LET f == Frame(r)
      reason == FinishReason(st, completed, finish_reason[f])
  IN /\ finish_reason' = [finish_reason EXCEPT ![f] = reason]
     /\ IF txt = Unbound
        THEN Raise(r, "UnboundLocalError")
        ELSE /\ stream' = [stream EXCEPT ![r] = Append(@,
                  GenerationOutput(FinalFinished, r,
                    <<CompletionChunk(0, txt, outs, cumulative_logprob[f], reason)>>, p))]
             /\ pc' = [pc EXCEPT ![r] = "final"]
             /\ err' = err

\* first resumption: from the top of generate_iterator to the first yield
Prefill(r) ==
  LET f == Frame(r)
      c == req[r]
      p == SliceLast(c.prompt, MaxSrcLen(c))
      start_ids == IF is_encoder_decoder THEN <<DecoderStartTokenId>> ELSE p
  IN /\ r \in reqs /\ backend = "pt" /\ pc[r] = "init" /\ EnginePulled(r)
     /\ active_adapter' = IF c.adapter_name # None THEN c.adapter_name ELSE active_adapter
     /\ UNCHANGED <<registry_vars, reqs, req, api, openai_vars, backend, is_encoder_decoder, eos_token_id, facade_vars, ext_is_last>>
     /\ IF (is_encoder_decoder /\ c.logprobs) \/ start_ids = <<>>
        THEN /\ Raise(r, IF is_encoder_decoder /\ c.logprobs THEN "NotImplementedError" ELSE "IndexError")
             /\ prompt_token_ids' = [prompt_token_ids EXCEPT ![f] = p]
             /\ output_token_ids' = [output_token_ids EXCEPT ![f] = p]
             /\ cumulative_logprob' = [cumulative_logprob EXCEPT ![f] = 0]
             /\ UNCHANGED <<oracle, i, past_key_values, token, stopped, text, finish_reason, drawn, fed>>
        ELSE IF 0 \in LoopRange(c.max_new_tokens)
        THEN LoopBody(r, 0, p, p, start_ids, NoCache, 0)
        ELSE /\ AfterLoop(r, p, p, Unbound, FALSE, TRUE)
             /\ prompt_token_ids' = [prompt_token_ids EXCEPT ![f] = p]
             /\ output_token_ids' = [output_token_ids EXCEPT ![f] = p]
             /\ cumulative_logprob' = [cumulative_logprob EXCEPT ![f] = 0]
             /\ UNCHANGED <<oracle, i, past_key_values, token, stopped, text, drawn, fed>>

\* resumption after a non-final yield: the next pass of the loop
Decode(r) ==
  LET f == Frame(r)
  IN /\ r \in reqs /\ backend = "pt" /\ pc[r] = "yielded" /\ EnginePulled(r)
     /\ ~LoopBreaks(stopped[f])
     /\ (i[f] + 1) \in LoopRange(req[r].max_new_tokens)
     /\ UNCHANGED <<registry_vars, reqs, req, api, openai_vars, backend, is_encoder_decoder, eos_token_id, active_adapter,
                    facade_vars, ext_is_last>>
     /\ LoopBody(r, i[f] + 1, prompt_token_ids[f], output_token_ids[f], DecodeInput(f),
                 past_key_values[f], cumulative_logprob[f])

\* resumption after a non-final yield when the loop is over: the final yield
Finish(r) ==
  LET f == Frame(r)
  IN /\ r \in reqs /\ backend = "pt" /\ pc[r] = "yielded" /\ EnginePulled(r)
     /\ LoopBreaks(stopped[f]) \/ (i[f] + 1) \notin LoopRange(req[r].max_new_tokens)
     /\ AfterLoop(r, prompt_token_ids[f], output_token_ids[f], text[f], stopped[f],
                  ~LoopBreaks(stopped[f]))
     /\ UNCHANGED <<registry_vars, reqs, req, api, openai_vars, engine_vars, facade_vars, ext_is_last>>
     /\ UNCHANGED <<prompt_token_ids, i, output_token_ids, past_key_values, token,
                    cumulative_logprob, stopped, text, drawn, fed>>

\* resumption after the final yield: del past_key_values, out; the generator ends
Clean(r) ==
  LET f == Frame(r)
  IN /\ r \in reqs /\ backend = "pt" /\ pc[r] = "final" /\ EnginePulled(r)
     /\ past_key_values' = [past_key_values EXCEPT ![f] = NoCache]
     /\ pc' = [pc EXCEPT ![r] = "done"]
     /\ UNCHANGED <<registry_vars, reqs, req, api, openai_vars, engine_vars, facade_vars, err, ext_is_last, stream>>
     /\ UNCHANGED <<prompt_token_ids, i, output_token_ids, token,
                    cumulative_logprob, stopped, text, finish_reason, drawn, fed>>

(* --------------------- CTranslateRunnable (engine) ---------------------- *)
\* finished flag of an emission, from the runtime's request_output.is_last
CTFinished(is_last) == is_last

\* one resumption: the next step result of model.async_generate_tokens, which
\* yields at least one result and sets is_last on its last one only
CTGenerate(r) ==
  LET f == Frame(r)
      c == req[r]
      first == pc[r] = "init"
  IN /\ r \in reqs /\ backend = "ctranslate" /\ pc[r] \in {"init", "yielded"}
     /\ ~ext_is_last[r] /\ EnginePulled(r)
     /\ UNCHANGED <<registry_vars, reqs, req, api, openai_vars, engine_vars, facade_vars>>
     /\ UNCHANGED <<i, past_key_values, stopped, finish_reason>>
     /\ IF first /\ c.adapter_name # None
        THEN /\ Raise(r, "OpenLLMException")
             /\ UNCHANGED <<prompt_token_ids, output_token_ids, token, cumulative_logprob,
                            text, ext_is_last, drawn, fed>>
        ELSE \E tok \in Tokens, is_last \in BOOLEAN :
               LET outs == Append(IF first THEN c.prompt ELSE output_token_ids[f], tok)
                   clp == (IF first THEN 0 ELSE cumulative_logprob[f])
                            + (IF c.logprobs THEN TokenLogprob(tok) ELSE 0)
                   gen == SubSeq(outs, Len(c.prompt) + 1, Len(outs))
                   txt == decode(gen, TRUE)
               IN /\ (Len(stream[r]) + 1 >= MaxExt) => is_last
                  /\ prompt_token_ids' = [prompt_token_ids EXCEPT ![f] = c.prompt]
                  /\ output_token_ids' = [output_token_ids EXCEPT ![f] = outs]
                  /\ token' = [token EXCEPT ![f] = tok]
                  /\ drawn' = [drawn EXCEPT ![r] = Append(@, tok)]
                  /\ fed' = fed
                  /\ cumulative_logprob' = [cumulative_logprob EXCEPT ![f] = clp]
                  /\ text' = [text EXCEPT ![f] = txt]
                  /\ ext_is_last' = [ext_is_last EXCEPT ![r] = is_last]
                  /\ stream' = [stream EXCEPT ![r] = Append(@,
                       GenerationOutput(CTFinished(is_last), r,
                         <<CompletionChunk(0, txt, gen, clp, None)>>, c.prompt))]
                  /\ pc' = [pc EXCEPT ![r] = "yielded"]
                  /\ err' = err

\* resumption after the runtime's last step result: the async for ends
CTExhaust(r) ==
  /\ r \in reqs /\ backend = "ctranslate" /\ pc[r] = "yielded"
  /\ ext_is_last[r] /\ EnginePulled(r)
  /\ pc' = [pc EXCEPT ![r] = "done"]
  /\ UNCHANGED <<registry_vars, reqs, req, api, openai_vars, engine_vars, facade_vars, frame_vars, err, ext_is_last, stream, drawn, fed>>

(* ------------------------ vLLMRunnable (engine) ------------------------- *)
\* GenerationOutput.from_vllm(request_output): the cumulative text and the
\* generated ids of the engine's step result; finish_reason is set on the
\* finished result only
FromVLLM(r, p, gen, clp, finished, reason) ==
  GenerationOutput(finished, r,
    <<CompletionChunk(0, decode(gen, TRUE), gen, clp, IF finished THEN reason ELSE None)>>, p)

\* one resumption: the next step result of AsyncLLMEngine.generate, which
\* yields at least one result and marks its last one finished; adapter_name
\* is a parameter the body never reads
vLLMGenerate(r) ==
  LET f == Frame(r)
      c == req[r]
      first == pc[r] = "init"
  IN /\ r \in reqs /\ backend = "vllm" /\ pc[r] \in {"init", "yielded"}
     /\ ~ext_is_last[r] /\ EnginePulled(r)
     /\ UNCHANGED <<registry_vars, reqs, req, api, openai_vars, engine_vars, facade_vars>>
     /\ UNCHANGED <<i, past_key_values, stopped, finish_reason, err>>
     /\ \E tok \in Tokens, finished \in BOOLEAN, reason \in {"stop", "length"} :
          LET outs == Append(IF first THEN c.prompt ELSE output_token_ids[f], tok)
              clp == (IF first THEN 0 ELSE cumulative_logprob[f])
                       + (IF c.logprobs THEN TokenLogprob(tok) ELSE 0)
              gen == SubSeq(outs, Len(c.prompt) + 1, Len(outs))
          IN /\ (Len(stream[r]) + 1 >= MaxExt) => finished
             /\ ~finished => reason = "stop"
             /\ prompt_token_ids' = [prompt_token_ids EXCEPT ![f] = c.prompt]
             /\ output_token_ids' = [output_token_ids EXCEPT ![f] = outs]
             /\ token' = [token EXCEPT ![f] = tok]
             /\ drawn' = [drawn EXCEPT ![r] = Append(@, tok)]
             /\ fed' = fed
             /\ cumulative_logprob' = [cumulative_logprob EXCEPT ![f] = clp]
             /\ text' = [text EXCEPT ![f] = decode(gen, TRUE)]
             /\ ext_is_last' = [ext_is_last EXCEPT ![r] = finished]
             /\ stream' = [stream EXCEPT ![r] = Append(@, FromVLLM(r, c.prompt, gen, clp, finished, reason))]
             /\ pc' = [pc EXCEPT ![r] = "yielded"]

\* resumption after the finished step result: the async for ends
vLLMExhaust(r) ==
  /\ r \in reqs /\ backend = "vllm" /\ pc[r] = "yielded"
  /\ ext_is_last[r] /\ EnginePulled(r)
  /\ pc' = [pc EXCEPT ![r] = "done"]
  /\ UNCHANGED <<registry_vars, reqs, req, api, openai_vars, engine_vars, facade_vars, frame_vars, err, ext_is_last, stream, drawn, fed>>

(* ---------------------- LLM.generate_iterator (facade) ------------------ *)
\* (mutant) a return type the check lets through
LaxReturnTypes == {"text", "sse", "object", "token", "json"}

ValidReturnTypes == {"text", "sse", "object", "token"}

\* the entry points that consume LLM.generate_iterator
ViaGenerateIterator == {"generate_iterator", "generate_stream_v1"}

\* `if isinstance(self.runner._runner_handle, DummyRunnerHandle): init_local()`,
\* outside a bento (BENTO_PATH unset)
InitLocal(handle) == IF handle = "dummy" THEN "local" ELSE handle

\* s[n:]
Drop(s, n) == SubSeq(s, n + 1, Len(s))

NoChunk == CompletionChunk(-1, <<>>, <<>>, 0, None)
NoOutput == GenerationOutput(FALSE, 0, <<>>, <<>>)
Yield(kind, txt, out) == [kind |-> kind, text |-> txt, out |-> out]

\* the stop_token_ids list after `if eos not in stop_token_ids: append(eos)`
WithEos(lst) ==
  IF \E k \in 1 .. Len(lst) : lst[k] = EosTokenId THEN lst ELSE Append(lst, EosTokenId)

\* the stop set after `for tid in stop_token_ids: if tid: stop.add(decode(tid))`
WithDecodedStops(stp, lst) ==
  stp \cup {decode(<<lst[k]>>, FALSE) : k \in {j \in 1 .. Len(lst) : lst[j] # 0}}

\* the text delta of one output against the retained text
DeltaText(txt, prev) == Drop(txt, Len(prev))

\* `for output in generated.outputs:` from the k-th output on, in text and
\* token mode: the retained state after it and what it yields
RECURSIVE Reconcile(_, _, _, _, _)
Reconcile(generated, k, pt, pn, return_type) ==
  IF k > Len(generated.outputs) THEN [pt |-> pt, pn |-> pn, ys |-> <<>>]
  ELSE LET output == generated.outputs[k]
           idx == output.index + 1
           delta_text == DeltaText(output.text, pt[idx])
           delta_token == Drop(output.token_ids, pn[idx])
           pt2 == [pt EXCEPT ![idx] = output.text]
           pn2 == [pn EXCEPT ![idx] = Len(output.token_ids)]
           delta_outputs == [j \in 1 .. Len(generated.outputs) |->
                               IF j = idx
                               THEN [output EXCEPT !.text = delta_text, !.token_ids = delta_token]
                               ELSE NoChunk]
           y == IF return_type = "text" THEN Yield("text", delta_text, NoOutput)
                ELSE Yield("token", <<>>, [generated EXCEPT !.outputs = delta_outputs])
       IN IF output.finish_reason # None
          THEN [pt |-> pt2, pn |-> pn2, ys |-> <<y>>]
          ELSE LET rest == Reconcile(generated, k + 1, pt2, pn2, return_type)
               IN [pt |-> rest.pt, pn |-> rest.pn, ys |-> <<y>> \o rest.ys]

\* (mutant) the finished emission handled like any other
EndsStreamNever(generated) == FALSE

\* `if generated.finished: break`
EndsStream(generated) == generated.finished

\* (mutant) the reconciler state kept on the LLM object, shared by all calls
SharedLocals(r) == 1

\* previous_texts and previous_num_tokens are locals of the call that made them
Locals(r) == r

\* first resumption of LLM.generate_iterator, up to the call of the runner
FacadeStart(r) ==
  LET c == req[r]
  IN /\ r \in reqs /\ api[r] \in ViaGenerateIterator /\ fpc[r] = "new"
     /\ UNCHANGED <<registry_vars, reqs, req, api, openai_vars, engine_vars, frame_vars, gen_vars, drawn, fed, fpos, yielded,
                    served>>
     /\ IF c.return_type \notin ValidReturnTypes
        THEN /\ fpc' = [fpc EXCEPT ![r] = "error"]
             /\ ferr' = [ferr EXCEPT ![r] = "ValueError"]
             /\ UNCHANGED <<stop_token_ids, stop, previous_texts, previous_num_tokens, llm_runner>>
        ELSE LET lst == WithEos(IF c.stop_token_ids = NoList THEN <<>> ELSE c.stop_token_ids)
             IN /\ stop_token_ids' = [stop_token_ids EXCEPT ![r] = lst]
                /\ \E ord \in Orders(WithDecodedStops(c.stop, lst)) :
                     stop' = [stop EXCEPT ![r] = ord]
                /\ previous_texts' = [previous_texts EXCEPT ![Locals(r)] = [k \in 1 .. c.n |-> <<>>]]
                /\ previous_num_tokens' = [previous_num_tokens EXCEPT ![Locals(r)] = [k \in 1 .. c.n |-> 0]]
                /\ llm_runner' = InitLocal(llm_runner)
                /\ fpc' = [fpc EXCEPT ![r] = "run"]
                /\ ferr' = ferr

\* one pass of `async for out in ...async_stream(...)`
FacadeRecv(r) ==
  LET c == req[r]
      out == stream[r][fpos[r] + 1]
  IN /\ r \in reqs /\ api[r] \in ViaGenerateIterator /\ fpc[r] = "run" /\ fpos[r] < Len(stream[r])
     /\ fpos' = [fpos EXCEPT ![r] = @ + 1]
     /\ UNCHANGED <<registry_vars, reqs, req, api, openai_vars, engine_vars, frame_vars, gen_vars, drawn, fed, ferr, stop_token_ids, stop,
                    llm_runner, served>>
     /\ IF c.return_type = "sse"
        THEN /\ yielded' = [yielded EXCEPT ![r] = Append(@, Yield("sse", <<>>, out))]
             /\ UNCHANGED <<fpc, previous_texts, previous_num_tokens>>
        ELSE IF EndsStream(out)
        THEN /\ fpc' = [fpc EXCEPT ![r] = "done"]
             /\ UNCHANGED <<yielded, previous_texts, previous_num_tokens>>
        ELSE IF c.return_type = "object"
        THEN /\ yielded' = [yielded EXCEPT ![r] = Append(@, Yield("object", <<>>, out))]
             /\ UNCHANGED <<fpc, previous_texts, previous_num_tokens>>
        ELSE LET rec == Reconcile(out, 1, previous_texts[Locals(r)], previous_num_tokens[Locals(r)], c.return_type)
             IN /\ yielded' = [yielded EXCEPT ![r] = @ \o rec.ys]
                /\ previous_texts' = [previous_texts EXCEPT ![Locals(r)] = rec.pt]
                /\ previous_num_tokens' = [previous_num_tokens EXCEPT ![Locals(r)] = rec.pn]
                /\ fpc' = fpc

\* the engine stream ended, or raised: the facade ends with it
FacadeEnd(r) ==
  /\ r \in reqs /\ api[r] \in ViaGenerateIterator /\ fpc[r] = "run" /\ fpos[r] = Len(stream[r])
  /\ pc[r] \in {"done", "error"}
  /\ fpc' = [fpc EXCEPT ![r] = pc[r]]
  /\ ferr' = [ferr EXCEPT ![r] = err[r]]
  /\ UNCHANGED <<registry_vars, reqs, req, api, openai_vars, engine_vars, frame_vars, gen_vars, drawn, fed, stop_token_ids, stop,
                 previous_texts, previous_num_tokens, fpos, yielded, llm_runner, served>>

(* ------------------------------ LLM.generate --------------------------- *)
\* (mutant) the first emission received
FirstReceived(s, n) == s[1]

\* `out` after `async for out in ...: pass`: the last emission received
LastReceived(s, n) == s[n]

\* first resumption of LLM.generate, up to the call of the runner method
\* `generate`; the engine classes define generate_iterator only, so whether
\* the runner has a method of that name is up to the serving library: it
\* either streams the engine's generator or the attribute lookup fails
GenerateStart(r) ==
  LET c == req[r]
      lst == WithEos(IF c.stop_token_ids = NoList THEN <<>> ELSE c.stop_token_ids)
  IN /\ r \in reqs /\ api[r] = "generate" /\ fpc[r] = "new"
     /\ UNCHANGED <<registry_vars, reqs, req, api, openai_vars, engine_vars, frame_vars, gen_vars, drawn, fed, fpos, yielded,
                    previous_texts, previous_num_tokens, served>>
     /\ llm_runner' = InitLocal(llm_runner)
     /\ stop_token_ids' = [stop_token_ids EXCEPT ![r] = lst]
     /\ \E ord \in Orders(WithDecodedStops(c.stop, lst)) : stop' = [stop EXCEPT ![r] = ord]
     /\ \E resolves \in BOOLEAN :
          IF resolves
          THEN fpc' = [fpc EXCEPT ![r] = "run"] /\ ferr' = ferr
          ELSE fpc' = [fpc EXCEPT ![r] = "error"] /\ ferr' = [ferr EXCEPT ![r] = "AttributeError"]

\* one pass of `async for out in ...: pass`
GenerateRecv(r) ==
  /\ r \in reqs /\ api[r] = "generate" /\ fpc[r] = "run" /\ fpos[r] < Len(stream[r])
  /\ fpos' = [fpos EXCEPT ![r] = @ + 1]
  /\ UNCHANGED <<registry_vars, reqs, req, api, openai_vars, engine_vars, frame_vars, gen_vars, drawn, fed, fpc, ferr,
                 stop_token_ids, stop, previous_texts, previous_num_tokens, yielded, llm_runner, served>>

\* the engine stream ended: `return GenerationOutput.from_sse(out)`, or it
\* raised: the exception leaves generate
GenerateReturn(r) ==
  /\ r \in reqs /\ api[r] = "generate" /\ fpc[r] = "run" /\ fpos[r] = Len(stream[r])
  /\ pc[r] \in {"done", "error"}
  /\ UNCHANGED <<registry_vars, reqs, req, api, openai_vars, engine_vars, frame_vars, gen_vars, drawn, fed,
                 stop_token_ids, stop, previous_texts, previous_num_tokens, fpos, yielded, llm_runner,
                 frames, spc>>
  /\ IF pc[r] = "error"
     THEN /\ fpc' = [fpc EXCEPT ![r] = "error"]
          /\ ferr' = [ferr EXCEPT ![r] = err[r]]
          /\ returned' = returned
     ELSE IF fpos[r] = 0
     THEN \* the loop variable `out` was never assigned
          /\ fpc' = [fpc EXCEPT ![r] = "error"]
          /\ ferr' = [ferr EXCEPT ![r] = "UnboundLocalError"]
          /\ returned' = returned
     ELSE /\ fpc' = [fpc EXCEPT ![r] = "done"]
          /\ ferr' = ferr
          /\ returned' = [returned EXCEPT ![r] = LastReceived(stream[r], fpos[r])]

(* ------------------- /v1/generate_stream (LLMService) ------------------- *)
\* 'data: <json>\n\n' and 'data: [DONE]\n\n'
DataFrame(generated) == [kind |-> "data", out |-> generated]
DoneFrame == [kind |-> "done", out |-> NoOutput]

\* generated.model_dump_json(): a GenerationOutput has the method, a str
\* (what the 'sse' and 'text' modes yield) has not
HasModelDumpJson(y) == y.kind \in {"object", "token"}

\* the body a client posts: prompt, max_new_tokens, request_id and
\* adapter_name given; prompt_token_ids, stop and stop_token_ids left out
GenerationInput(p, n, rid, ad) ==
  [prompt |-> p, prompt_token_ids |-> None, stop |-> None, stop_token_ids |-> None,
   request_id |-> rid, adapter_name |-> ad, max_new_tokens |-> n]

\* the call llm.generate_iterator(prompt, prompt_token_ids, stop,
\* stop_token_ids, request_id, adapter_name, **config): six positional
\* arguments, bound to the parameters prompt, stop, stop_token_ids,
\* request_id, return_type, format_prompt in that order; adapter_name keeps
\* its default
GenerateStreamV1Call(structured) ==
  [prompt |-> structured.prompt, max_new_tokens |-> structured.max_new_tokens,
   context_length |-> 8, temperature_e9 |-> 700000000, top_p_e9 |-> 1000000000,
   logprobs |-> FALSE, prompt_logprobs |-> FALSE,
   stop |-> IF structured.prompt_token_ids = None THEN {} ELSE {structured.prompt_token_ids},
   stop_token_ids |-> IF structured.stop = None THEN NoList ELSE structured.stop,
   adapter_name |-> None, return_type |-> structured.request_id, n |-> 1]

\* one pass of `async for generated in llm.generate_iterator(...)`
GenerateStreamV1Frame(r) ==
  LET generated == yielded[r][Len(frames[r]) + 1]
  IN /\ r \in reqs /\ api[r] = "generate_stream_v1" /\ spc[r] = "run"
     /\ Len(frames[r]) < Len(yielded[r])
     /\ IF HasModelDumpJson(generated)
        THEN /\ frames' = [frames EXCEPT ![r] = Append(@, DataFrame(generated.out))]
             /\ spc' = spc
        ELSE /\ spc' = [spc EXCEPT ![r] = "error"]
             /\ frames' = frames
     /\ UNCHANGED <<registry_vars, reqs, req, api, openai_vars, engine_vars, frame_vars, gen_vars, drawn, fed, fpc, ferr,
                    stop_token_ids, stop, previous_texts, previous_num_tokens, fpos, yielded,
                    llm_runner, returned>>

\* generate_iterator ended: the sentinel frame; or it raised: the handler
\* ends with the exception
GenerateStreamV1End(r) ==
  /\ r \in reqs /\ api[r] = "generate_stream_v1" /\ spc[r] = "run"
  /\ Len(frames[r]) = Len(yielded[r]) /\ fpc[r] \in {"done", "error"}
  /\ IF fpc[r] = "done"
     THEN /\ frames' = [frames EXCEPT ![r] = Append(@, DoneFrame)]
          /\ spc' = [spc EXCEPT ![r] = "done"]
     ELSE /\ spc' = [spc EXCEPT ![r] = "error"]
          /\ frames' = frames
  /\ UNCHANGED <<registry_vars, reqs, req, api, openai_vars, engine_vars, frame_vars, gen_vars, drawn, fed, fpc, ferr,
                 stop_token_ids, stop, previous_texts, previous_num_tokens, fpos, yielded,
                 llm_runner, returned>>

(* ------------------------- consumers that leave ------------------------- *)
\* the consumer of LLM.generate_iterator stops iterating after an emission: a
\* non-streaming handler returns on `await req.is_disconnected()`
Abandon(r) ==
  /\ r \in reqs /\ api[r] = "generate_iterator" /\ fpc[r] = "run" /\ fpos[r] > 0
  /\ fpc' = [fpc EXCEPT ![r] = "abandoned"]
  /\ UNCHANGED <<registry_vars, reqs, req, api, openai_vars, engine_vars, frame_vars, gen_vars, drawn, fed, ferr,
                 stop_token_ids, stop, previous_texts, previous_num_tokens, fpos, yielded,
                 llm_runner, served>>

\* an engine generator that nobody will resume is closed at the yield it is
\* suspended on: GeneratorExit is raised there, no handler and no finally
\* block encloses the yield, so no further statement of the generator runs
GeneratorExit(r) ==
  /\ r \in reqs /\ fpc[r] \in {"done", "abandoned"} /\ pc[r] \in {"yielded", "final"}
  /\ pc' = [pc EXCEPT ![r] = "closed"]
  /\ UNCHANGED <<registry_vars, reqs, req, api, openai_vars, engine_vars, facade_vars, frame_vars, err,
                 ext_is_last, stream, drawn, fed>>

(* --------------------------- backend registry --------------------------- *)
\* bound: classes created after the import of _runners
MaxNewClasses == 3

\* the backend identifiers a caller may name (LiteralBackend, OPENLLM_BACKEND)
Backends == {"pt", "vllm", "ctranslate", "ggml", "mlc"}

\* _cls.__name__[:-8].lower()
NameStem(name) ==
  CASE name = "CTranslateRunnable" -> "ctranslate"
    [] name = "vLLMRunnable" -> "vllm"
    [] name = "PyTorchRunnable" -> "pytorch"
    [] name = "GgmlRunnable" -> "ggml"
    [] OTHER -> "other"

RegistryKey(name, alias) == IF alias = None THEN NameStem(name) ELSE alias

\* a class object: gated when its __new__ is _gated_new, can_init its
\* __openllm_can_init__, has_llm when it carries the llm attribute that the
\* __init__ of the engines reads
Class(name, gated, can_init, needs_llm, has_llm, via) ==
  [name |-> name, gated |-> gated, can_init |-> can_init, init_needs_llm |-> needs_llm,
   has_llm |-> has_llm, via |-> via]

\* the class as written in the class statement, and what registry() returns for it
Original(name, needs_llm) == Class(name, FALSE, FALSE, needs_llm, FALSE, "class")
Decorated(cls) == [cls EXCEPT !.gated = TRUE, !.can_init = FALSE, !.via = "registry"]

\* the class object decorator() stores in _registry, given the class statement's
\* class and the class it returns
Registered(original, decorated) == original

\* _gated_new
GatedNew(cls) == IF ~cls.can_init THEN "TypeError" ELSE "ok"

\* cls(): __new__, then __init__
Construct(cls) ==
  IF cls.gated /\ GatedNew(cls) # "ok" THEN "TypeError"
  ELSE IF cls.init_needs_llm /\ ~cls.has_llm THEN "AttributeError"
  ELSE "constructed"

Op(op, arg, result, cls) == [op |-> op, arg |-> arg, result |-> result, cls |-> cls]

\* the state after `import openllm._runners`: three decorated classes
RegistryImported ==
  /\ classes = << Original("CTranslateRunnable", TRUE), Decorated(Original("CTranslateRunnable", TRUE)),
                  Original("vLLMRunnable", TRUE), Decorated(Original("vLLMRunnable", TRUE)),
                  Original("PyTorchRunnable", TRUE), Decorated(Original("PyTorchRunnable", TRUE)) >>
  /\ registry_table = [k \in {"ctranslate", "vllm", "pt"} |->
                         CASE k = "ctranslate" -> 1 [] k = "vllm" -> 3 [] OTHER -> 5]
  /\ last_op = Op("import", None, "ok", 0)
  /\ warned = <<>>

\* the module-level names of _runners, bound to what the decorator returned
vLLMRunnable == 4
PyTorchRunnable == 6

RoomFor(n) == Len(classes) + n <= 6 + MaxNewClasses

request_vars == <<reqs, req, api, openai_vars, engine_vars, facade_vars, frame_vars, gen_vars, drawn, fed>>

\* @registry / @registry(alias=...) on a class statement
Register(name, alias, needs_llm) ==
  LET original == Original(name, needs_llm)
      decorated == Decorated(original)
      key == RegistryKey(name, alias)
      stored == Registered(original, decorated)
      at == IF stored = original THEN Len(classes) + 1 ELSE Len(classes) + 2
  IN /\ RoomFor(2)
     /\ classes' = classes \o <<original, decorated>>
     /\ registry_table' = [k \in DOMAIN registry_table \cup {key} |->
                             IF k = key THEN at ELSE registry_table[k]]
     /\ last_op' = Op("registry", key, "ok", Len(classes) + 2)
     /\ warned' = warned
     /\ UNCHANGED request_vars

\* runner(llm), with llm.__llm_backend__ = b
RunnerCall(b) ==
  /\ UNCHANGED request_vars
  /\ IF b \notin DOMAIN registry_table
     THEN /\ last_op' = Op("runner", b, "KeyError", 0)
          /\ UNCHANGED <<classes, registry_table, warned>>
     ELSE LET backend_cls == classes[registry_table[b]]
          IN /\ RoomFor(1)
             /\ classes' = Append(classes,
                  [backend_cls EXCEPT !.can_init = TRUE, !.has_llm = TRUE, !.via = "runner"])
             /\ last_op' = Op("runner", b, "ok", Len(classes) + 1)
             /\ UNCHANGED <<registry_table, warned>>

\* the engine class _RunnerFactory picks for backend b
FactoryChoice(b) == IF b = "vllm" THEN vLLMRunnable ELSE PyTorchRunnable

\* _RunnerFactory(llm, backend=b)
RunnerFactory(b) ==
  /\ last_op' = Op("factory", b, "ok", FactoryChoice(b))
  /\ UNCHANGED <<classes, registry_table, warned, request_vars>>

\* a direct call of a class object
Instantiate(cid) ==
  /\ last_op' = Op("new", classes[cid].name, Construct(classes[cid]), cid)
  /\ UNCHANGED <<classes, registry_table, warned, request_vars>>

NextRegistry ==
  \/ \E alias \in {None, "pt"}, needs_llm \in BOOLEAN : Register("GgmlRunnable", alias, needs_llm)
  \/ \E b \in Backends : RunnerCall(b)
  \/ \E b \in Backends : RunnerFactory(b)
  \/ \E cid \in 1 .. Len(classes) : Instantiate(cid)

(* --------------------- entrypoints/openai (handlers) -------------------- *)
MaxAlts == 2

\* [x] * n: a list whose n slots all refer to the one object x
ListTimes(x, n) == [slots |-> [k \in 1 .. n |-> 1], heap |-> <<x>>]

\* lst[idx], idx counted from 1
Item(lst, idx) == lst.heap[lst.slots[idx]]

\* lst[idx].append(x) and lst[idx].extend(xs): the object the slot refers to grows
ExtendItem(lst, idx, xs) == [lst EXCEPT !.heap[lst.slots[idx]] = @ \o xs]

\* ''.join(fragments)
RECURSIVE Join(_)
Join(fragments) == IF fragments = <<>> THEN <<>> ELSE Head(fragments) \o Join(Tail(fragments))

\* every sequence that takes its k-th element from the k-th set
RECURSIVE SeqProduct(_)
SeqProduct(sets) ==
  IF sets = <<>> THEN {<<>>}
  ELSE {<<x>> \o rest : x \in Head(sets), rest \in SeqProduct(Tail(sets))}

\* the chunk of one alternative in the next step result: a finished
\* alternative stays as it is, a running one has one more token and may stop
AltNext(prev) ==
  IF prev.finish_reason # None THEN {prev}
  ELSE {CompletionChunk(prev.index, decode(Append(prev.token_ids, tok), TRUE),
                        Append(prev.token_ids, tok), 0, reason) :
          tok \in {1, 2}, reason \in {None, "stop"}}

\* what llm.generate_iterator(prompt, request_id=..., **config) may yield
\* next in object mode over an engine that runs n alternatives: the next step
\* result with one chunk per alternative; the result in which every
\* alternative has finished is the finished one, which the facade drops
NextResults(hist, n) ==
  LET prev == IF hist = <<>> THEN [k \in 1 .. n |-> CompletionChunk(k - 1, <<>>, <<>>, 0, None)]
              ELSE hist[Len(hist)].outputs
  IN IF Len(hist) >= MaxExt THEN {}
     ELSE {GenerationOutput(FALSE, 1, outs, <<2>>) :
             outs \in {o \in SeqProduct([k \in 1 .. n |-> AltNext(prev[k])]) :
                         \E k \in 1 .. n : o[k].finish_reason = None}}

UsageInfo(prompt_tokens, completion_tokens) ==
  [prompt_tokens |-> prompt_tokens, completion_tokens |-> completion_tokens,
   total_tokens |-> prompt_tokens + completion_tokens]

NoUsage == UsageInfo(-1, 0)

\* f'data: {create_stream_response_json(index, text, finish_reason, usage)}\n\n'
StreamChunk(index, txt, reason, usage) ==
  [kind |-> "chunk", index |-> index, text |-> txt, finish_reason |-> reason, usage |-> usage]

\* the first chunk of an alternative, with the role
RoleChunk(index) ==
  [kind |-> "role", index |-> index, text |-> <<>>, finish_reason |-> None, usage |-> NoUsage]

\* 'data: [DONE]\n\n'
StreamDone ==
  [kind |-> "done", index |-> -1, text |-> <<>>, finish_reason |-> None, usage |-> NoUsage]

\* no request is being served
HandlerIdle ==
  /\ request = [endpoint |-> None, stream |-> FALSE, n |-> 0]
  /\ hpc = "idle"
  /\ result_generator = <<>>
  /\ res = NoOutput
  /\ out_pos = 0
  /\ h_i = -1
  /\ h_previous_num_tokens = <<>>
  /\ sent = <<>>
  /\ texts = ListTimes(<<>>, 0)
  /\ token_ids = ListTimes(<<>>, 0)
  /\ final_result = NoOutput
  /\ response = [status |-> 0, choices |-> <<>>]

beyond_openai == <<reqs, req, api, engine_vars, facade_vars, frame_vars, gen_vars, drawn, fed, registry_vars>>

\* chat_completions and completions up to the first await of the response:
\* `texts, token_ids = [[]] * config['n'], [[]] * config['n']` when not
\* streaming, StreamingResponse(<generator>) when streaming (request.logprobs
\* and best_of not given)
HandlerStart ==
  /\ hpc = "idle"
  /\ \E endpoint \in {"chat", "completions"}, stream_ \in BOOLEAN, n \in 1 .. MaxAlts :
       /\ request' = [endpoint |-> endpoint, stream |-> stream_, n |-> n]
       /\ IF stream_
          THEN hpc' = "stream" /\ UNCHANGED <<texts, token_ids>>
          ELSE /\ hpc' = "await"
               /\ texts' = ListTimes(<<>>, n)
               /\ token_ids' = ListTimes(<<>>, n)
  /\ UNCHANGED <<beyond_openai, result_generator, res, out_pos, h_i, h_previous_num_tokens, sent,
                 final_result, response>>

\* `for output in res.outputs:` of the non-streaming loop, from the k-th on
RECURSIVE Accumulate(_, _, _, _)
Accumulate(rs, k, tx, tk) ==
  IF k > Len(rs.outputs) THEN [texts |-> tx, token_ids |-> tk]
  ELSE LET output == rs.outputs[k]
       IN Accumulate(rs, k + 1, ExtendItem(tx, output.index + 1, <<output.text>>),
                     ExtendItem(tk, output.index + 1, output.token_ids))

\* one pass of the non-streaming `async for res in result_generator`
HandlerRecv ==
  /\ hpc = "await"
  /\ \E nxt \in NextResults(result_generator, request.n), disconnected \in BOOLEAN :
       /\ result_generator' = Append(result_generator, nxt)
       /\ IF disconnected
          THEN /\ hpc' = "error"
               /\ response' = [status |-> 400, choices |-> <<>>]
               /\ UNCHANGED <<texts, token_ids, final_result>>
          ELSE LET acc == Accumulate(nxt, 1, texts, token_ids)
               IN /\ texts' = acc.texts
                  /\ token_ids' = acc.token_ids
                  /\ final_result' = nxt
                  /\ UNCHANGED <<hpc, response>>
  /\ UNCHANGED <<beyond_openai, request, res, out_pos, h_i, h_previous_num_tokens, sent>>

\* the stream has ended: 'No response from model.' or the response built
\* from final_result.with_options(outputs=[...])
HandlerRespond ==
  /\ hpc = "await"
  /\ IF final_result = NoOutput
     THEN hpc' = "error" /\ response' = [status |-> 400, choices |-> <<>>]
     ELSE /\ hpc' = "done"
          /\ response' =
               [status |-> 200,
                choices |-> [k \in 1 .. Len(final_result.outputs) |->
                   LET output == final_result.outputs[k]
                   IN [output EXCEPT !.text = Join(Item(texts, output.index + 1)),
                                     !.token_ids = Item(token_ids, output.index + 1)]]]
  /\ UNCHANGED <<beyond_openai, request, result_generator, res, out_pos, h_i, h_previous_num_tokens,
                 sent, texts, token_ids, final_result>>

\* the streaming generator runs the loop body for output k of rs up to
\* `yield f'data: {create_stream_response_json(...)}'`; completions sets
\* i = output.index and counts the tokens before it yields
AtOutput(rs, k, pnt, ii) ==
  LET output == rs.outputs[k]
      completions_ == request.endpoint = "completions"
  IN /\ res' = rs
     /\ out_pos' = k
     /\ h_i' = IF completions_ THEN output.index ELSE ii
     /\ h_previous_num_tokens' =
          IF completions_ THEN [pnt EXCEPT ![output.index + 1] = @ + Len(output.token_ids)] ELSE pnt
     /\ sent' = Append(sent, StreamChunk(output.index, output.text, None, NoUsage))
     /\ hpc' = "data"

\* the streaming generator runs on to its next yield: the next output of
\* res, the first output of the next result, or 'data: [DONE]' after the
\* last result
Proceed(pnt, ii) ==
  IF out_pos < Len(res.outputs)
  THEN AtOutput(res, out_pos + 1, pnt, ii) /\ result_generator' = result_generator
  ELSE \/ \E nxt \in NextResults(result_generator, request.n) :
            /\ result_generator' = Append(result_generator, nxt)
            /\ AtOutput(nxt, 1, pnt, ii)
       \/ /\ sent' = Append(sent, StreamDone)
          /\ hpc' = "last"
          /\ h_previous_num_tokens' = pnt
          /\ h_i' = ii
          /\ UNCHANGED <<result_generator, res, out_pos>>

\* chat_completion_stream_generator, first chunks:
\* `for i in range(config['n']): yield <role chunk i>`, then
\* `previous_num_tokens = [0] * config['n']` and the loop
ChatRole ==
  /\ request.endpoint = "chat" /\ hpc \in {"stream", "role"}
  /\ IF h_i + 1 < request.n
     THEN /\ h_i' = h_i + 1
          /\ sent' = Append(sent, RoleChunk(h_i + 1))
          /\ hpc' = "role"
          /\ UNCHANGED <<result_generator, res, out_pos, h_previous_num_tokens>>
     ELSE Proceed([k \in 1 .. request.n |-> 0], h_i)
  /\ UNCHANGED <<beyond_openai, request, texts, token_ids, final_result, response>>

\* completion_stream_generator, first resumption:
\* `previous_num_tokens = [0] * config['n']` and the loop
CompletionStreamStart ==
  /\ request.endpoint = "completions" /\ hpc = "stream"
  /\ Proceed([k \in 1 .. request.n |-> 0], h_i)
  /\ UNCHANGED <<beyond_openai, request, texts, token_ids, final_result, response>>

\* resumption after the data chunk of an output: chat counts the tokens
\* now; `if output.finish_reason is not None:` the finishing chunk with
\* UsageInfo(prompt_tokens, previous_num_tokens[i], ...) is yielded
StreamAfterData ==
  /\ hpc = "data"
  /\ LET output == res.outputs[out_pos]
         pnt == IF request.endpoint = "chat"
                THEN [h_previous_num_tokens EXCEPT ![output.index + 1] = @ + Len(output.token_ids)]
                ELSE h_previous_num_tokens
     IN IF output.finish_reason # None
        THEN LET prompt_tokens == Len(res.prompt_token_ids)
                 usage == UsageInfo(prompt_tokens, pnt[h_i + 1])
             IN /\ sent' = Append(sent, StreamChunk(output.index, <<>>, output.finish_reason, usage))
                /\ hpc' = "finish"
                /\ h_previous_num_tokens' = pnt
                /\ UNCHANGED <<result_generator, res, out_pos, h_i>>
        ELSE Proceed(pnt, h_i)
  /\ UNCHANGED <<beyond_openai, request, texts, token_ids, final_result, response>>

\* resumption after the finishing chunk of an output
StreamAfterFinish ==
  /\ hpc = "finish"
  /\ Proceed(h_previous_num_tokens, h_i)
  /\ UNCHANGED <<beyond_openai, request, texts, token_ids, final_result, response>>

\* resumption after 'data: [DONE]': the generator returns
StreamClose ==
  /\ hpc = "last"
  /\ hpc' = "done"
  /\ UNCHANGED <<beyond_openai, request, result_generator, res, out_pos, h_i, h_previous_num_tokens,
                 sent, texts, token_ids, final_result, response>>

NextOpenAI ==
  \/ HandlerStart
  \/ HandlerRecv
  \/ HandlerRespond
  \/ ChatRole
  \/ CompletionStreamStart
  \/ StreamAfterData
  \/ StreamAfterFinish
  \/ StreamClose

(* ------------------------------ requests -------------------------------- *)
Prompts == {<<2>>, <<1, 2, 1>>}
ContextLengths == {3, 8}
Greedy == [temperature_e9 |-> 0, top_p_e9 |-> 1000000000]
GreedyTopP == [temperature_e9 |-> 700000000, top_p_e9 |-> 0]
Sampled == [temperature_e9 |-> 700000000, top_p_e9 |-> 1000000000]
StopSets == {{}, {<<"b">>}, {<<"a", "b">>}, {<<"a", "b">>, <<"b">>}}

Request(p, n, cl, s, lp, plp, stp, stids, ad, rt, alts) ==
  [prompt |-> p, max_new_tokens |-> n, context_length |-> cl,
   temperature_e9 |-> s.temperature_e9, top_p_e9 |-> s.top_p_e9,
   logprobs |-> lp, prompt_logprobs |-> plp, stop |-> stp, stop_token_ids |-> stids,
   adapter_name |-> ad, return_type |-> rt, n |-> alts]

IdleRequest == Request(<<>>, 0, 0, Greedy, FALSE, FALSE, {}, NoList, None, "sse", 1)

\* requests that exercise the engine: the stream is passed through ('sse')
EngineRequests ==
  {Request(p, n, cl, s, lp, plp, stp, NoList, ad, "sse", 1) :
     p \in Prompts, n \in 0 .. MaxNewTokens, cl \in ContextLengths,
     s \in {Greedy, GreedyTopP, Sampled}, lp \in BOOLEAN, plp \in BOOLEAN,
     stp \in StopSets, ad \in {None, "lora"}}

\* the state before any call: the engine of one of the backends BKS, loaded
\* with a tokenizer whose eos id is in EOS, and the calls RS about to be made
\* through one of the entry points APIS with arguments from CFG
InitWith(RS, BKS, EDS, CFG, EOS, APIS) ==
  /\ reqs = RS
  /\ backend \in BKS
  /\ is_encoder_decoder \in EDS
  /\ eos_token_id \in EOS
  /\ api \in {[r \in R |-> IF r \in RS THEN g[r] ELSE "generate_iterator"] : g \in [RS -> APIS]}
  /\ llm_runner = "dummy"
  /\ returned = [r \in R |-> NoOutput]
  /\ frames = [r \in R |-> <<>>]
  /\ spc = [r \in R |-> "run"]
  /\ active_adapter = None
  /\ oracle = << >>
  /\ req \in {[r \in R |-> IF r \in RS THEN g[r] ELSE IdleRequest] : g \in [RS -> CFG]}
  /\ fpc = [r \in R |-> "new"]
  /\ ferr = [r \in R |-> None]
  /\ stop_token_ids = [r \in R |-> req[r].stop_token_ids]
  /\ stop = [r \in R |-> <<>>]
  /\ previous_texts = [r \in R |-> <<>>]
  /\ previous_num_tokens = [r \in R |-> <<>>]
  /\ fpos = [r \in R |-> 0]
  /\ yielded = [r \in R |-> <<>>]
  /\ pc = [r \in R |-> "init"]
  /\ err = [r \in R |-> None]
  /\ prompt_token_ids = [r \in R |-> <<>>]
  /\ i = [r \in R |-> -1]
  /\ output_token_ids = [r \in R |-> <<>>]
  /\ past_key_values = [r \in R |-> NoCache]
  /\ token = [r \in R |-> -1]
  /\ cumulative_logprob = [r \in R |-> 0]
  /\ stopped = [r \in R |-> FALSE]
  /\ text = [r \in R |-> Unbound]
  /\ finish_reason = [r \in R |-> None]
  /\ ext_is_last = [r \in R |-> FALSE]
  /\ stream = [r \in R |-> <<>>]
  /\ drawn = [r \in R |-> <<>>]
  /\ fed = [r \in R |-> <<>>]
  /\ RegistryImported
  /\ HandlerIdle

\* calls of LLM.generate_iterator on an engine whose tokenizer has eos id 0
InitOf(RS, BKS, EDS, CFG) == InitWith(RS, BKS, EDS, CFG, {0}, {"generate_iterator"})

Init == InitOf({1}, {"pt", "ctranslate"}, BOOLEAN, EngineRequests)

Next ==
  \E r \in R :
    \/ FacadeStart(r)
    \/ FacadeRecv(r)
    \/ FacadeEnd(r)
    \/ Prefill(r)
    \/ Decode(r)
    \/ Finish(r)
    \/ Clean(r)
    \/ CTGenerate(r)
    \/ CTExhaust(r)

Spec == Init /\ [][Next]_vars

\* the registry alone: no request is in flight
InitRegistry == InitOf({}, {"pt"}, {FALSE}, {IdleRequest})

SpecRegistry == InitRegistry /\ [][NextRegistry]_vars

\* requests that exercise the facade: every return type, stop token ids, n
FacadeRequests ==
  {Request(p, n, 8, s, FALSE, FALSE, stp, stids, None, rt, alts) :
     p \in Prompts, n \in 1 .. MaxNewTokens, s \in {Greedy, Sampled},
     stp \in StopSets, stids \in {NoList, <<2>>},
     rt \in ValidReturnTypes \cup {"json"}, alts \in {1, 2}}

InitFacade == InitOf({1}, {"pt", "ctranslate"}, {FALSE}, FacadeRequests)

SpecFacade == InitFacade /\ [][Next]_vars

\* two requests in flight on one sequential engine instance
ConcurrentRequests ==
  {Request(p, MaxNewTokens, 8, s, TRUE, FALSE, {<<"a", "b">>}, NoList, None, "sse", 1) :
     p \in Prompts, s \in {Greedy, GreedyTopP, Sampled}}

InitConcurrent == InitOf({1, 2}, {"pt"}, {FALSE}, ConcurrentRequests)

NextConcurrent ==
  \E r \in R :
    \/ FacadeStart(r)
    \/ FacadeRecv(r)
    \/ FacadeEnd(r)
    \/ Prefill(r)
    \/ Decode(r)
    \/ Finish(r)
    \/ Clean(r)

SpecConcurrent == InitConcurrent /\ [][NextConcurrent]_vars

\* two calls of LLM.generate_iterator in flight on one sequential engine, in
\* text and token mode
InterleavedRequests ==
  {Request(<<2>>, MaxNewTokens, 8, Sampled, FALSE, FALSE, {}, NoList, None, rt, alts) :
     rt \in {"text", "token"}, alts \in {1, 2}}

InitInterleaved == InitOf({1, 2}, {"pt"}, {FALSE}, InterleavedRequests)

\* in text and token mode the facade leaves its loop at the finished
\* emission, so the engine generator is closed where it is suspended
NextInterleaved ==
  \E r \in R :
    \/ FacadeStart(r)
    \/ FacadeRecv(r)
    \/ Prefill(r)
    \/ Decode(r)
    \/ Finish(r)
    \/ GeneratorExit(r)

SpecInterleaved == InitInterleaved /\ [][NextInterleaved]_vars

\* two requests in flight on one sequential engine, each with its own adapter
\* or none
AdapterRequests ==
  {Request(<<2>>, MaxNewTokens, 8, s, FALSE, FALSE, {}, NoList, ad, "sse", 1) :
     s \in {Greedy, Sampled}, ad \in {None, "lora", "qlora"}}

InitAdapters == InitOf({1, 2}, {"pt"}, {FALSE}, AdapterRequests)

SpecAdapters == InitAdapters /\ [][NextConcurrent]_vars

\* the OpenAI handlers over a facade stream of several alternatives
InitOpenAI == InitOf({}, {"vllm"}, {FALSE}, {IdleRequest})

SpecOpenAI == InitOpenAI /\ [][NextOpenAI]_vars

\* one call through any entry point on an engine of any backend
ServiceRequests ==
  {Request(p, n, 8, Sampled, FALSE, plp, stp, stids, ad, rt, 1) :
     p \in Prompts, n \in 0 .. MaxNewTokens, plp \in BOOLEAN, stp \in {{}, {<<"b">>}},
     stids \in {NoList, <<0>>, <<1>>}, ad \in {None, "lora"}, rt \in {"object", "sse", "text"}}

GenerateStreamV1Requests ==
  {GenerateStreamV1Call(GenerationInput(p, n, rid, ad)) :
     p \in Prompts, n \in 1 .. MaxNewTokens, rid \in {None, "cmpl-1", "object", "sse"},
     ad \in {None, "lora"}}

InitService ==
  /\ InitWith({1}, {"pt", "ctranslate", "vllm"}, {FALSE}, ServiceRequests \cup GenerateStreamV1Requests,
              {0, 2}, {"generate_iterator", "generate", "generate_stream_v1"})
  /\ (api[1] = "generate_stream_v1") <=> (req[1] \in GenerateStreamV1Requests)
  /\ (api[1] = "generate") => (req[1].return_type = "object")

NextService ==
  \E r \in R :
    \/ FacadeStart(r)
    \/ FacadeRecv(r)
    \/ FacadeEnd(r)
    \/ GenerateStart(r)
    \/ GenerateRecv(r)
    \/ GenerateReturn(r)
    \/ GenerateStreamV1Frame(r)
    \/ GenerateStreamV1End(r)
    \/ Abandon(r)
    \/ GeneratorExit(r)
    \/ Prefill(r)
    \/ Decode(r)
    \/ Finish(r)
    \/ Clean(r)
    \/ CTGenerate(r)
    \/ CTExhaust(r)
    \/ vLLMGenerate(r)
    \/ vLLMExhaust(r)

SpecService == InitService /\ [][NextService]_vars

(* ------------------------------- claims --------------------------------- *)
Last(s) == s[Len(s)]
HasTerminal(r) == Len(stream[r]) > 0 /\ Last(stream[r]).finished
Terminal(r) == Last(stream[r]).outputs[1]
EngineEnded(r) == pc[r] \in {"final", "done", "error"}
Range(s) == {s[k] : k \in 1 .. Len(s)}

\* the text of the tokens the request generated
Continuation(r) == decode(drawn[r], TRUE)

\* the positions at which a configured stop string occurs in a text
StopPositions(txt, stp) == UNION {Occurrences(txt, stp[k]) : k \in 1 .. Len(stp)}

\* no stop token was drawn and no stop string appears
NoStopCondition(r) ==
  /\ EosTokenId \notin Range(drawn[r])
  /\ StopPositions(Continuation(r), stop[r]) = {}

\* C1: a sequential-engine run with max_new_tokens = N (N >= 0) in which no
\* stop token is drawn and no stop string appears ends without an error, after
\* exactly N emissions with finished=false and one with finished=true whose
\* finish_reason is "length" (requests without logprobs options).
C1_LengthRun ==
  \A r \in reqs :
    (/\ backend = "pt" /\ EngineEnded(r) /\ NoStopCondition(r)
     /\ ~req[r].logprobs /\ ~req[r].prompt_logprobs)
    => /\ pc[r] # "error"
       /\ Len(stream[r]) = req[r].max_new_tokens + 1
       /\ \A k \in 1 .. req[r].max_new_tokens : ~stream[r][k].finished
       /\ HasTerminal(r)
       /\ Terminal(r).finish_reason = "length"

\* C2: when a configured stop string occurs in the decoded continuation, the
\* terminal text of the sequential engine is the continuation cut at the
\* earliest occurrence of any stop string, and finish_reason is "stop".
C2_CutAtEarliestStop ==
  \A r \in reqs :
    (/\ backend = "pt" /\ HasTerminal(r)
     /\ StopPositions(Continuation(r), stop[r]) # {})
    => /\ Terminal(r).text = Take(Continuation(r), SetMin(StopPositions(Continuation(r), stop[r])))
       /\ StopPositions(Terminal(r).text, stop[r]) = {}
       /\ Terminal(r).finish_reason = "stop"

RECURSIVE ConcatTexts(_)
ConcatTexts(ys) == IF ys = <<>> THEN <<>> ELSE Head(ys).text \o ConcatTexts(Tail(ys))

\* C3: in text-delta mode over a sequential-engine stream, the text deltas
\* yielded for alternative 0, joined in order, equal the cumulative text of
\* the engine's terminal emission.
C3_DeltasJoinToFinalText ==
  \A r \in reqs :
    (/\ backend = "pt" /\ req[r].return_type = "text" /\ fpc[r] = "done"
     /\ fpos[r] > 0 /\ stream[r][fpos[r]].finished)
    => ConcatTexts(yielded[r]) = stream[r][fpos[r]].outputs[1].text

\* C4: in an engine stream an emission with finished=true is the last
\* emission of its request, and a stream that ran to completion has one.
C4_OneTerminalLast ==
  \A r \in reqs :
    /\ \A k \in 1 .. Len(stream[r]) :
         /\ stream[r][k].request_id = r
         /\ stream[r][k].finished => k = Len(stream[r])
    /\ pc[r] = "done" => HasTerminal(r)

C4_Witness ==
  /\ backend = "pt" /\ pc[1] = "done" /\ Len(stream[1]) = 3 /\ HasTerminal(1)

\* C5: selecting a backend by a name that was never registered fails, in
\* runner() and in _RunnerFactory.
C5_UnknownBackendFails ==
  (last_op.op \in {"runner", "factory"} /\ last_op.arg \notin DOMAIN registry_table)
    => last_op.result # "ok"

\* C6: a class object that runner() did not build is never constructed by a
\* direct call, whatever was registered.
C6_OnlyRunnerConstructs ==
  (last_op.op = "new" /\ classes[last_op.cls].via # "runner")
    => last_op.result # "constructed"

\* the prompt the engine generates from, and the input of its prefill
TruncatedPrompt(r) == SliceLast(req[r].prompt, MaxSrcLen(req[r]))
StartIds(r) == IF is_encoder_decoder THEN <<DecoderStartTokenId>> ELSE TruncatedPrompt(r)

RECURSIVE SumLogprob(_)
SumLogprob(toks) == IF toks = <<>> THEN 0 ELSE TokenLogprob(Head(toks)) + SumLogprob(Tail(toks))

\* the run of request r alone, on the tokens its own steps chose: what the
\* model conditions on in step k, the k-th non-final emission, the final one
SoloContext(r, k) ==
  [adapter |-> req[r].adapter_name,
   enc |-> IF is_encoder_decoder THEN TruncatedPrompt(r) ELSE <<>>,
   dec |-> StartIds(r) \o SubSeq(drawn[r], 1, k - 1)]
SoloLogprob(r, k) == IF req[r].logprobs THEN SumLogprob(SubSeq(drawn[r], 1, k)) ELSE 0
SoloText(r, k) == StopScan(decode(SubSeq(drawn[r], 1, k), TRUE), stop[r])
SoloEmission(r, k) ==
  GenerationOutput(FALSE, r,
    <<CompletionChunk(0, SoloText(r, k).text, SubSeq(drawn[r], 1, k), SoloLogprob(r, k), None)>>,
    TruncatedPrompt(r))
SoloFinal(r) ==
  LET k == Len(drawn[r])
      st == drawn[r][k] = EosTokenId \/ SoloText(r, k).stopped
  IN GenerationOutput(TRUE, r,
       <<CompletionChunk(0, SoloText(r, k).text, TruncatedPrompt(r) \o drawn[r], SoloLogprob(r, k),
                         IF st THEN "stop" ELSE "length")>>,
       TruncatedPrompt(r))

\* C7: with two generate_iterator calls interleaved on one sequential engine,
\* the decode state of a request (output token ids, cache, last token,
\* cumulative log-probability, step counter) is determined by that request's
\* own steps alone, every step conditions the model on the request's own
\* history, and the request emits what it emits when run alone.
C7_RequestsIsolated ==
  \A r \in reqs :
    LET n == Len(drawn[r]) IN
    /\ \A k \in 1 .. Len(stream[r]) :
         stream[r][k] = IF stream[r][k].finished THEN SoloFinal(r) ELSE SoloEmission(r, k)
    /\ pc[r] \in {"yielded", "final", "done"} =>
         /\ n >= 1
         /\ Len(stream[r]) = n + (IF pc[r] = "yielded" THEN 0 ELSE 1)
         /\ output_token_ids[r] = TruncatedPrompt(r) \o drawn[r]
         /\ token[r] = drawn[r][n]
         /\ i[r] = n - 1
         /\ cumulative_logprob[r] = SoloLogprob(r, n)
         /\ past_key_values[r] = IF pc[r] = "done" THEN NoCache ELSE SoloContext(r, n).dec
    /\ IsGreedy(req[r]) =>
         \A k \in 1 .. n : /\ SoloContext(r, k) \in DOMAIN oracle
                           /\ drawn[r][k] = oracle[SoloContext(r, k)]

C7_Witness ==
  /\ pc[1] = "yielded" /\ pc[2] = "yielded"
  /\ req[1].max_new_tokens = 2 /\ req[2].max_new_tokens = 2
  /\ Len(drawn[1]) = 2 /\ Len(drawn[2]) = 1
  /\ drawn[1][1] # drawn[2][1] /\ ~stopped[1] /\ ~stopped[2]

\* C8: two greedy runs of the sequential engine with the same prompt, the same
\* configuration and the same model choose the same tokens and emit the same
\* emissions, step for step.
C8_GreedyDeterminism ==
  \A r1, r2 \in reqs :
    (/\ r1 # r2 /\ req[r1] = req[r2] /\ IsGreedy(req[r1])
     /\ fpc[r1] # "new" /\ fpc[r2] # "new" /\ stop[r1] = stop[r2])
    => /\ \A k \in 1 .. Len(drawn[r1]) : k <= Len(drawn[r2]) => drawn[r1][k] = drawn[r2][k]
       /\ \A k \in 1 .. Len(stream[r1]) :
            k <= Len(stream[r2]) => stream[r1][k] = [stream[r2][k] EXCEPT !.request_id = r1]
       /\ (pc[r1] = "done" /\ pc[r2] = "done") =>
            /\ output_token_ids[r1] = output_token_ids[r2]
            /\ Len(stream[r1]) = Len(stream[r2])

C8_Witness ==
  /\ req[1] = req[2] /\ IsGreedy(req[1])
  /\ pc[1] = "done" /\ pc[2] = "done"
  /\ Len(drawn[1]) = 2 /\ Len(drawn[2]) = 2

NumFinished(s) == Cardinality({k \in 1 .. Len(s) : s[k].finished})
NumNonFinal(s) == Cardinality({k \in 1 .. Len(s) : ~s[k].finished})

\* C9: once the sequential engine has detected a stop, no further decode step
\* runs, no token is appended, and what follows the loop leaves the token
\* history alone and yields at most one terminal emission.
C9_StoppedIsFinal ==
  [][\A r \in reqs :
       (backend = "pt" /\ stopped[r] /\ pc[r] \in {"yielded", "final", "done"})
       => /\ output_token_ids'[r] = output_token_ids[r]
          /\ drawn'[r] = drawn[r]
          /\ i'[r] = i[r]
          /\ NumNonFinal(stream'[r]) = NumNonFinal(stream[r])
          /\ NumFinished(stream'[r]) <= 1]_vars

C9_Witness ==
  /\ backend = "pt" /\ stopped[1] /\ pc[1] = "done"
  /\ Len(drawn[1]) < req[1].max_new_tokens
  /\ NumFinished(stream[1]) = 1

EngineLeft(r) == pc[r] \in {"done", "error", "closed"}

\* C11: whenever the sequential engine has entered its step loop and control
\* has left generate_iterator (after a stop, after max_new_tokens steps, by an
\* exception raised in the loop, or because the consumer closed or abandoned
\* the stream), the cleanup block that releases the cache has been executed.
C11_CleanupOnEveryExit ==
  \A r \in reqs :
    (backend = "pt" /\ i[r] >= 0 /\ EngineLeft(r))
    => (pc[r] = "done" /\ past_key_values[r] = NoCache)

\* C12: the sequential engine never has executed more decode steps than the
\* consumer has pulled emissions, plus one; once the consumer has stopped
\* pulling (a handler returned on a client disconnect) no further step runs,
\* no emission is produced and none is consumed.
C12_NoStepWithoutPull ==
  [][\A r \in reqs :
       backend = "pt" =>
         /\ Len(drawn'[r]) <= fpos'[r] + 1
         /\ fpc[r] = "abandoned" =>
              /\ drawn'[r] = drawn[r]
              /\ stream'[r] = stream[r]
              /\ fpos'[r] = fpos[r]
              /\ fpc'[r] = "abandoned"]_vars

C12_Witness ==
  /\ backend = "pt" /\ fpc[1] = "abandoned" /\ pc[1] = "closed"
  /\ req[1].max_new_tokens = 2 /\ fpos[1] = 1 /\ Len(drawn[1]) = 1 /\ ~stopped[1]

\* C13: in 'object', 'text' and 'token' mode, the step in which
\* LLM.generate_iterator receives the engine emission with finished=true
\* yields nothing, leaves previous_texts and previous_num_tokens as they were
\* and ends the stream; nothing it ever yields carries finished=true.
C13_TerminalNotDiffed ==
  [][\A r \in reqs :
       /\ (/\ api[r] \in ViaGenerateIterator
           /\ req[r].return_type \in {"object", "text", "token"}
           /\ fpos'[r] = fpos[r] + 1
           /\ stream[r][fpos'[r]].finished)
          => /\ yielded'[r] = yielded[r]
             /\ previous_texts'[r] = previous_texts[r]
             /\ previous_num_tokens'[r] = previous_num_tokens[r]
             /\ fpc'[r] = "done"
       /\ \A k \in 1 .. Len(yielded'[r]) :
            yielded'[r][k].kind \in {"object", "token"} => ~yielded'[r][k].out.finished]_vars

C13_Witness ==
  /\ backend = "pt" /\ req[1].return_type = "token" /\ fpc[1] = "done"
  /\ fpos[1] = 3 /\ stream[1][3].finished /\ Len(yielded[1]) = 2
  /\ previous_num_tokens[1] = <<2>>

\* C14: when LLM.generate has returned, the engine stream was consumed to its
\* end (the engine generator has finished and every emission was received),
\* and the value returned is the last emission of the stream, which carries
\* finished=true and the request's id.
C14_GenerateReturnsTerminal ==
  \A r \in reqs :
    (api[r] = "generate" /\ fpc[r] = "done")
    => /\ pc[r] = "done"
       /\ fpos[r] = Len(stream[r])
       /\ HasTerminal(r)
       /\ returned[r] = Last(stream[r])
       /\ returned[r].finished
       /\ returned[r].request_id = r

C14_Witness ==
  /\ api[1] = "generate" /\ fpc[1] = "done" /\ backend = "pt"
  /\ Len(stream[1]) = 3 /\ returned[1] = stream[1][3] /\ ~stream[1][1].finished

\* C15: once an engine has started on a request that names an adapter, either
\* the request has failed with nothing emitted and no step run, or the named
\* adapter is the active one (it was made active before the first step).
C15_AdapterActiveOrRejected ==
  \A r \in reqs :
    (req[r].adapter_name # None /\ pc[r] # "init")
    => \/ pc[r] = "error" /\ stream[r] = <<>> /\ drawn[r] = <<>>
       \/ active_adapter = req[r].adapter_name

\* C16: /v1/generate_stream writes one data frame per emission of
\* llm.generate_iterator, in emission order, then one sentinel frame, which is
\* the last frame and follows the frame of the finished=true emission; a
\* request whose engine run did not fail gets its sentinel.
C16_FramesThenDone ==
  \A r \in reqs :
    api[r] = "generate_stream_v1" =>
      /\ \A k \in 1 .. Len(frames[r]) :
           /\ frames[r][k].kind = "done" => k = Len(frames[r])
           /\ frames[r][k].kind = "data" =>
                k <= Len(yielded[r]) /\ frames[r][k] = DataFrame(yielded[r][k].out)
      /\ spc[r] = "error" => pc[r] = "error"
      /\ spc[r] = "done" =>
           /\ Len(frames[r]) = Len(yielded[r]) + 1
           /\ Last(frames[r]) = DoneFrame
           /\ \E k \in 1 .. (Len(frames[r]) - 1) : frames[r][k].out.finished

\* C17: once LLM.generate_iterator has been started with a return_type other
\* than 'text', 'sse', 'object', 'token', it has failed with ValueError, has
\* yielded nothing, the engine generator was never started and the runner
\* was not initialised.
C17_BadReturnTypeRejected ==
  \A r \in reqs :
    (/\ api[r] \in ViaGenerateIterator /\ fpc[r] # "new"
     /\ req[r].return_type \notin {"text", "sse", "object", "token"})
    => /\ fpc[r] = "error" /\ ferr[r] = "ValueError"
       /\ yielded[r] = <<>>
       /\ pc[r] = "init" /\ stream[r] = <<>> /\ drawn[r] = <<>>
       /\ llm_runner = "dummy"

C17_Witness ==
  /\ req[1].return_type = "json" /\ fpc[1] = "error" /\ ferr[1] = "ValueError"

\* C18: no step removes a name from the registry; a registration maps its
\* name to the class of that registration, leaves every other entry as it
\* was, and issues a warning when the name was registered before.
C18_AppendOnlyLastWins ==
  [][/\ DOMAIN registry_table \subseteq DOMAIN registry_table'
     /\ (last_op'.op = "registry" /\ classes' # classes) =>
          LET key == last_op'.arg IN
          /\ key \in DOMAIN registry_table'
          /\ registry_table'[key] > Len(classes)
          /\ \A k \in DOMAIN registry_table \ {key} : registry_table'[k] = registry_table[k]
          /\ key \in DOMAIN registry_table => Len(warned') = Len(warned) + 1
     /\ (last_op'.op # "registry" \/ classes' = classes) => registry_table' = registry_table]_vars

\* C19: in a sequential-engine run, a step that draws a token id of the
\* request's stop-token-id list (the caller's ids and the end-of-sequence id)
\* is the last step, the run is stopped on it, and the terminal emission has
\* finish_reason "stop"; for every id, 0 included.
C19_StopTokenIdStops ==
  \A r \in reqs :
    (backend = "pt" /\ fpc[r] # "new" /\ pc[r] \in {"yielded", "final", "done"})
    => \A k \in 1 .. Len(drawn[r]) :
         drawn[r][k] \in Range(stop_token_ids[r])
         => /\ k = Len(drawn[r])
            /\ stopped[r]
            /\ HasTerminal(r) => Terminal(r).finish_reason = "stop"

\* a token stop or a string stop matches on step k of the request
MatchedAt(r, k) ==
  \/ drawn[r][k] = EosTokenId
  \/ StopPositions(decode(SubSeq(drawn[r], 1, k), TRUE), stop[r]) # {}

\* C20: the terminal emission of the sequential engine has finish_reason
\* "stop" or "length": "stop" exactly when a token or string stop matched on
\* some step (the last one included), "length" exactly when all
\* max_new_tokens steps ran and none matched.
C20_FinishReason ==
  \A r \in reqs :
    (backend = "pt" /\ HasTerminal(r))
    => LET matched == \E k \in 1 .. Len(drawn[r]) : MatchedAt(r, k)
           reason == Terminal(r).finish_reason
       IN /\ reason \in {"stop", "length"}
          /\ reason = "stop" <=> matched
          /\ reason = "length" <=> (Len(drawn[r]) = req[r].max_new_tokens /\ ~matched)

C20_Witness ==
  /\ backend = "pt" /\ HasTerminal(1) /\ req[1].max_new_tokens = 2
  /\ Len(drawn[1]) = 2 /\ ~MatchedAt(1, 1) /\ MatchedAt(1, 2)
  /\ Terminal(1).finish_reason = "stop"

\* the source window the request is entitled to, and `s is a suffix of t`
SourceLimit(r) ==
  IF is_encoder_decoder THEN req[r].context_length
  ELSE req[r].context_length - req[r].max_new_tokens - 1
IsSuffix(s, t) == Len(s) <= Len(t) /\ s = SubSeq(t, Len(t) - Len(s) + 1, Len(t))

\* C21: the prompt the sequential engine generates from is a suffix of the
\* given prompt, of at most context_length - max_new_tokens - 1 ids on a
\* causal model and at most context_length ids on an encoder-decoder model;
\* when that limit is 0 or negative nothing of the prompt is left.
C21_PromptTruncated ==
  \A r \in reqs :
    (backend = "pt" /\ pc[r] # "init")
    => /\ IsSuffix(prompt_token_ids[r], req[r].prompt)
       /\ Len(prompt_token_ids[r]) <= (IF SourceLimit(r) < 0 THEN 0 ELSE SourceLimit(r))

\* C22: on an encoder-decoder model a request with logprobs or with
\* prompt_logprobs has failed with NotImplementedError as soon as the engine
\* has started on it, with no forward pass run and nothing emitted.
C22_EncDecLogprobsRejected ==
  \A r \in reqs :
    (/\ backend = "pt" /\ is_encoder_decoder /\ pc[r] # "init"
     /\ (req[r].logprobs \/ req[r].prompt_logprobs))
    => /\ pc[r] = "error" /\ err[r] = "NotImplementedError"
       /\ fed[r] = <<>> /\ drawn[r] = <<>> /\ stream[r] = <<>>

\* C23: the first forward pass of a request is given the whole truncated
\* prompt (on an encoder-decoder model the decoder start token, the prompt
\* having gone through the encoder) and no cache; the k-th pass, k > 1, is
\* given exactly the token chosen by pass k-1 and the cache pass k-1
\* returned; the loop is left only stopped or after max_new_tokens passes.
C23_PrefillThenDecode ==
  \A r \in reqs :
    backend = "pt" =>
      /\ Len(fed[r]) = Len(drawn[r])
      /\ \A k \in 1 .. Len(fed[r]) :
           IF k = 1
           THEN fed[r][k].input_ids = StartIds(r) /\ fed[r][k].past_key_values = NoCache
           ELSE /\ fed[r][k].input_ids = <<drawn[r][k - 1]>>
                /\ fed[r][k].past_key_values = StartIds(r) \o SubSeq(drawn[r], 1, k - 2)
      /\ pc[r] \in {"final", "done"} =>
           (stopped[r] \/ Len(drawn[r]) = req[r].max_new_tokens)

C23_Witness ==
  /\ backend = "pt" /\ ~is_encoder_decoder /\ pc[1] = "done"
  /\ Len(fed[1]) = 2 /\ fed[1][1].input_ids = <<1, 2, 1>>
  /\ fed[1][2].past_key_values = <<1, 2, 1>>

\* C24: when the sequential engine has run k steps of a request without an
\* error, it has produced exactly k non-final emissions, the first k of its
\* stream; the j-th carries one chunk with exactly the first j generated
\* token ids, finished=false and finish_reason null, the stop step included.
C24_OneEmissionPerStep ==
  \A r \in reqs :
    (backend = "pt" /\ pc[r] \in {"yielded", "final", "done", "closed"})
    => /\ NumNonFinal(stream[r]) = Len(drawn[r])
       /\ \A j \in 1 .. Len(drawn[r]) :
            /\ ~stream[r][j].finished
            /\ Len(stream[r][j].outputs) = 1
            /\ stream[r][j].outputs[1].token_ids = SubSeq(drawn[r], 1, j)
            /\ stream[r][j].outputs[1].finish_reason = None

C24_Witness ==
  /\ backend = "pt" /\ pc[1] = "yielded" /\ stopped[1]
  /\ Len(drawn[1]) = 2 /\ Len(prompt_token_ids[1]) = 3
  /\ stream[1][2].outputs[1].token_ids = drawn[1]

\* what a call on its own yields and retains after the first `upto` emissions
\* of the stream s, taken from the k-th on
RECURSIVE SoloReconcile(_, _, _, _, _, _)
SoloReconcile(s, k, upto, pt, pn, return_type) ==
  IF k > upto \/ s[k].finished THEN [pt |-> pt, pn |-> pn, ys |-> <<>>]
  ELSE LET rec == Reconcile(s[k], 1, pt, pn, return_type)
           rest == SoloReconcile(s, k + 1, upto, rec.pt, rec.pn, return_type)
       IN [pt |-> rest.pt, pn |-> rest.pn, ys |-> rec.ys \o rest.ys]

\* C25: a call of LLM.generate_iterator in text or token mode has its own
\* previous_texts and previous_num_tokens, one slot per alternative, and under
\* every interleaving with another call what it has yielded and what it
\* retains are those of the call running alone on its own engine stream.
C25_ReconcilerPerCall ==
  \A r \in reqs :
    (req[r].return_type \in {"text", "token"} /\ fpc[r] \in {"run", "done"})
    => LET c == req[r]
           solo == SoloReconcile(stream[r], 1, fpos[r], [k \in 1 .. c.n |-> <<>>],
                                 [k \in 1 .. c.n |-> 0], c.return_type)
       IN /\ Len(previous_texts[r]) = c.n /\ Len(previous_num_tokens[r]) = c.n
          /\ yielded[r] = solo.ys
          /\ previous_texts[r] = solo.pt
          /\ previous_num_tokens[r] = solo.pn

C25_Witness ==
  /\ reqs = {1, 2} /\ fpc[1] = "run" /\ fpc[2] = "done"
  /\ req[1].return_type = "text" /\ req[2].return_type = "text" /\ req[1].n = 2
  /\ Len(yielded[1]) = 1 /\ Len(yielded[2]) = 2
  /\ previous_texts[1] # previous_texts[2]

\* C27: every forward pass of a request on the sequential engine runs with
\* the adapter the request asked for, the base weights when it asked for
\* none, whatever other requests are in flight on the engine.
C27_StepsUnderOwnAdapter ==
  \A r \in reqs :
    backend = "pt" => \A k \in 1 .. Len(fed[r]) : fed[r][k].adapter = req[r].adapter_name

\* C26: LLM.generate and LLM.generate_iterator leave the stop_token_ids list
\* the caller passed as it was given, same elements and same length, for
\* every eos id (the parameter stop_token_ids names the caller's own list
\* whenever one was passed; the stop collection is only read, into a new set).
C26_CallerListUnchanged ==
  \A r \in reqs :
    (api[r] \in {"generate", "generate_iterator"} /\ req[r].stop_token_ids # NoList)
    => stop_token_ids[r] = req[r].stop_token_ids

\* C28: on every backend, when LLM.generate_iterator in object mode has ended
\* on the engine's finished emission, the last object it yielded carries the
\* cumulative text of that emission and all the token ids generated.
C28_LastObjectIsTerminal ==
  \A r \in reqs :
    (/\ api[r] = "generate_iterator" /\ req[r].return_type = "object"
     /\ fpc[r] = "done" /\ HasTerminal(r))
    => /\ yielded[r] # <<>>
       /\ Last(yielded[r]).out.outputs[1].text = Terminal(r).text
       /\ Last(yielded[r]).out.outputs[1].token_ids = drawn[r]

\* the text fragments and the token ids of the outputs with index idx in the
\* results hist, in order
RECURSIVE OwnFragments(_, _)
OwnFragments(hist, idx) ==
  IF hist = <<>> THEN <<>>
  ELSE LET own == {k \in 1 .. Len(Head(hist).outputs) : Head(hist).outputs[k].index = idx}
       IN (IF own = {} THEN <<>> ELSE <<Head(hist).outputs[SetMin(own)].text>>)
            \o OwnFragments(Tail(hist), idx)
RECURSIVE OwnTokenIds(_, _)
OwnTokenIds(hist, idx) ==
  IF hist = <<>> THEN <<>>
  ELSE LET own == {k \in 1 .. Len(Head(hist).outputs) : Head(hist).outputs[k].index = idx}
       IN (IF own = {} THEN <<>> ELSE Head(hist).outputs[SetMin(own)].token_ids)
            \o OwnTokenIds(Tail(hist), idx)

\* C29: in the non-streaming chat_completions and completions, after any
\* number of results the accumulated text fragments and token ids of
\* alternative i are exactly those of the outputs with index i, and the
\* choice returned for i is built from them alone.
C29_AccumulatorsPerAlternative ==
  (~request.stream /\ hpc \in {"await", "done"})
  => /\ \A idx \in 0 .. request.n - 1 :
          /\ Item(texts, idx + 1) = OwnFragments(result_generator, idx)
          /\ Item(token_ids, idx + 1) = OwnTokenIds(result_generator, idx)
     /\ hpc = "done" =>
          \A k \in 1 .. Len(response.choices) :
            LET choice == response.choices[k]
            IN /\ choice.text = Join(OwnFragments(result_generator, choice.index))
               /\ choice.token_ids = OwnTokenIds(result_generator, choice.index)

\* C30: whenever chat_completion_stream_generator is suspended at the
\* finishing chunk of alternative k, the usage in that chunk has
\* completion_tokens = previous_num_tokens[k]; 'data: [DONE]' is yielded
\* once, as the last frame.
C30_UsageOfOwnAlternative ==
  (request.endpoint = "chat" /\ request.stream)
  => /\ hpc = "finish" =>
          sent[Len(sent)].usage.completion_tokens
            = h_previous_num_tokens[sent[Len(sent)].index + 1]
     /\ \A k \in 1 .. Len(sent) :
          sent[k] = StreamDone <=> (k = Len(sent) /\ hpc \in {"last", "done"})

====
